---- MODULE Spec2Model ----
(***************************************************************************)
(* State-machine models of the whisper dictation components:               *)
(*   rt*  the periodic-refresh component          (unnamed/part_001)       *)
(*   cs*  the chunk-streaming component           (src/app.jsx 350-573)    *)
(*   ph*  the token-guarded press-and-hold components                      *)
(*        (src/app.jsx 1-348 and 575-963, unnamed/part_002, part_003)      *)
(*   wk*  the transcription worker (src/transcriptionWorker.js, part_000)  *)
(*   rs*  resampleAudio                         (unnamed/part_002 18-44)   *)
(* A text is a sequence of tokens; the empty string is << >>.              *)
(***************************************************************************)
EXTENDS Integers, Sequences, FiniteSets, TLC

\* ---------------------------------------------------------------- bounds
MaxSessions == 2
MaxMicPending == 2
MaxCalls == 3
MaxChunks == 2
MaxLoads == 2
MaxRequests == 2
MaxBuffers == 1
MaxLen == 6

\* ------------------------------------------------------- pipeline outputs
\* What a pipeline call can resolve to: an object with a text (possibly the
\* empty text), or an output without a usable text field.
Texts == { <<"a">>, <<"b">> }
NoText == << >>
Outputs ==
  {[hasText |-> TRUE, text |-> t] : t \in Texts \cup {NoText}}
    \cup {[hasText |-> FALSE, text |-> NoText]}

VARIABLES
  rtStatus,         \* status (useState)
  rtTranscription,  \* transcription (useState)
  rtTranscriber,    \* transcriberRef.current is non-null
  rtLoad,           \* the pipeline() promise of loadModel
  rtMicPending,     \* startRecording calls awaiting getUserMedia
  rtSessions,       \* number of granted microphone requests so far
  rtRecState,       \* state of each MediaRecorder created
  rtRecorderRef,    \* mediaRecorderRef.current (0 = null)
  rtChunks,         \* audioChunksRef.current.length
  rtIsBusy,         \* isBusyRef.current
  rtTimers,         \* intervals that are scheduled
  rtIntervalRef,    \* intervalRef.current (0 = null)
  rtLiveStreams,    \* streams whose tracks are live
  rtStreamRef,      \* streamRef.current (0 = null)
  rtFinalTimers,    \* pending setTimeout callbacks of stopRecording
  rtCalls,          \* outstanding pipeline calls
  rtCallCount,      \* pipeline calls started so far
  rtFinalId,        \* history: id of the last final pass that wrote its text
  rtFinalText,      \* history: the text that pass wrote
  rtLastWriteId,    \* history: id of the call that last wrote transcription
  rtThrown,         \* history: a pipeline call has thrown since the last command
  csStatus,         \* status (useState)
  csTranscription,  \* transcription (useState)
  csTranscriber,    \* transcriberRef.current is non-null
  csLoad,           \* the pipeline() promise of loadModel
  csMicPending,     \* startRecording calls awaiting getUserMedia
  csSessions,       \* number of granted microphone requests so far
  csRecState,       \* state of each MediaRecorder created
  csRecorderRef,    \* mediaRecorderRef.current (0 = null)
  csChunks,         \* chunksRef.current.length
  csInFlight,       \* inFlightRef.current
  csLiveStreams,    \* recorders whose stream has live tracks
  csCalls,          \* outstanding pipeline calls
  csCallCount,      \* pipeline calls started so far
  phVariant,        \* which transcribeAudio the component has
  phStatus,         \* status (useState)
  phTranscription,  \* transcription (useState)
  phProgress,       \* progress (useState)
  phTranscriber,    \* transcriberRef.current: 0 = null, g = pipeline of load g
  phLoadToken,      \* loadTokenRef.current
  phLoads,          \* tokens of the loadModel runs whose pipeline() is pending
  phPointerActive,  \* pointerActiveRef.current
  phMicPending,     \* startRecording calls awaiting getUserMedia
  phSessions,       \* number of granted microphone requests so far
  phRecState,       \* state of each MediaRecorder created
  phRecorderRef,    \* mediaRecorderRef.current (0 = null)
  phChunks,         \* audioChunks.length of each recorder's closure
  phLiveStreams,    \* recorders whose stream has live tracks
  phJob,            \* where the transcribeAudio of each recording stands
  phAttempts,       \* history: pipeline invocations made for each recording
  phJobThrown,      \* history: a pipeline invocation of the recording threw
  phStaleSettled,   \* history: a superseded load has resolved or rejected
  phBefore,         \* history: transcription when the pending startRecording began
  wkVersion,        \* which worker script runs
  wkTranscriber,    \* transcriber: 0 = null, i = the pipeline request i loaded
  wkCurrentModel,   \* currentModel
  wkCurrentQuantized, \* currentQuantized
  wkReq,            \* each received request: its message and where it stands
  wkPosted,         \* the messages posted to the main thread
  wkDisposed,       \* history: the pipelines dispose() was called on
  rsSource,         \* resampleAudio: audioBuffer.getChannelData(0)
  rsSourceRate,     \* resampleAudio: audioBuffer.sampleRate
  rsTargetRate,     \* resampleAudio: targetSampleRate
  rsResult,         \* resampleAudio: the array returned
  rsReturned        \* resampleAudio has returned

rtVars == << rtStatus, rtTranscription, rtTranscriber, rtLoad, rtMicPending,
             rtSessions, rtRecState, rtRecorderRef, rtChunks, rtIsBusy,
             rtTimers, rtIntervalRef, rtLiveStreams, rtStreamRef,
             rtFinalTimers, rtCalls, rtCallCount, rtFinalId, rtFinalText,
             rtLastWriteId, rtThrown >>

csVars == << csStatus, csTranscription, csTranscriber, csLoad, csMicPending,
             csSessions, csRecState, csRecorderRef, csChunks, csInFlight,
             csLiveStreams, csCalls, csCallCount >>

phVars == << phVariant, phStatus, phTranscription, phProgress, phTranscriber,
             phLoadToken, phLoads, phPointerActive, phMicPending, phSessions,
             phRecState, phRecorderRef, phChunks, phLiveStreams, phJob,
             phAttempts, phJobThrown,
                  phStaleSettled, phBefore >>

wkVars == << wkVersion, wkTranscriber, wkCurrentModel, wkCurrentQuantized,
             wkReq, wkPosted, wkDisposed >>

rsVars == << rsSource, rsSourceRate, rsTargetRate, rsResult, rsReturned >>

vars == << rtVars, csVars, phVars, wkVars, rsVars >>

\* Each component runs on its own: its actions leave the others' state alone.
RtFrame == UNCHANGED << csVars, phVars, wkVars, rsVars >>
CsFrame == UNCHANGED << rtVars, phVars, wkVars, rsVars >>
PhFrame == UNCHANGED << rtVars, csVars, wkVars, rsVars >>
WkFrame == UNCHANGED << rtVars, csVars, phVars, rsVars >>
RsFrame == UNCHANGED << rtVars, csVars, phVars, wkVars >>

\* =========================================================================
\* Periodic-refresh component (unnamed/part_001)
\* =========================================================================
RtInit ==
  /\ rtStatus = "loading"
  /\ rtTranscription = NoText
  /\ rtTranscriber = FALSE
  /\ rtLoad = "pending"
  /\ rtMicPending = 0
  /\ rtSessions = 0
  /\ rtRecState = [r \in 1..MaxSessions |-> "none"]
  /\ rtRecorderRef = 0
  /\ rtChunks = 0
  /\ rtIsBusy = FALSE
  /\ rtTimers = {}
  /\ rtIntervalRef = 0
  /\ rtLiveStreams = {}
  /\ rtStreamRef = 0
  /\ rtFinalTimers = 0
  /\ rtCalls = {}
  /\ rtCallCount = 0
  /\ rtFinalId = 0
  /\ rtFinalText = NoText
  /\ rtLastWriteId = 0
  /\ rtThrown = FALSE

\* loadModel: the pipeline() promise resolves.
RtLoadResolve ==
  /\ rtLoad = "pending"
  /\ rtLoad' = "done"
  /\ rtTranscriber' = TRUE
  /\ rtStatus' = "ready"
  /\ UNCHANGED << rtTranscription, rtMicPending, rtSessions, rtRecState,
                  rtRecorderRef, rtChunks, rtIsBusy, rtTimers, rtIntervalRef,
                  rtLiveStreams, rtStreamRef, rtFinalTimers, rtCalls,
                  rtCallCount, rtFinalId, rtFinalText, rtLastWriteId, rtThrown >>
  /\ RtFrame

\* loadModel: the pipeline() promise rejects.
RtLoadReject ==
  /\ rtLoad = "pending"
  /\ rtLoad' = "failed"
  /\ rtStatus' = "error"
  /\ UNCHANGED << rtTranscription, rtTranscriber, rtMicPending, rtSessions,
                  rtRecState, rtRecorderRef, rtChunks, rtIsBusy, rtTimers,
                  rtIntervalRef, rtLiveStreams, rtStreamRef, rtFinalTimers,
                  rtCalls, rtCallCount, rtFinalId, rtFinalText, rtLastWriteId,
                  rtThrown >>
  /\ RtFrame

\* The Record button is rendered when status is not 'recording' and is
\* disabled while status is 'loading' or 'processing'.
RtRecordEnabled == rtStatus \notin {"recording", "loading", "processing"}

\* startRecording up to its await of getUserMedia.
RtStartRecording ==
  /\ RtRecordEnabled
  /\ rtMicPending < MaxMicPending
  /\ rtMicPending' = rtMicPending + 1
  /\ rtThrown' = FALSE
  /\ UNCHANGED << rtStatus, rtTranscription, rtTranscriber, rtLoad, rtSessions,
                  rtRecState, rtRecorderRef, rtChunks, rtIsBusy, rtTimers,
                  rtIntervalRef, rtLiveStreams, rtStreamRef, rtFinalTimers,
                  rtCalls, rtCallCount, rtFinalId, rtFinalText, rtLastWriteId >>
  /\ RtFrame

\* startRecording after getUserMedia resolved: a new stream, recorder and
\* interval replace the ones the refs held.
RtMicGranted ==
  /\ rtMicPending > 0
  /\ rtSessions < MaxSessions
  /\ LET s == rtSessions + 1 IN
       /\ rtSessions' = s
       /\ rtStreamRef' = s
       /\ rtLiveStreams' = rtLiveStreams \cup {s}
       /\ rtRecorderRef' = s
       /\ rtRecState' = [rtRecState EXCEPT ![s] = "recording"]
       /\ rtTimers' = rtTimers \cup {s}
       /\ rtIntervalRef' = s
  /\ rtMicPending' = rtMicPending - 1
  /\ rtChunks' = 0
  /\ rtTranscription' = NoText
  /\ rtStatus' = "recording"
  /\ rtFinalId' = 0
  /\ rtFinalText' = NoText
  /\ rtLastWriteId' = 0
  /\ UNCHANGED << rtTranscriber, rtLoad, rtIsBusy, rtFinalTimers, rtCalls,
                  rtCallCount, rtThrown >>
  /\ RtFrame

\* startRecording when getUserMedia rejects: the catch block only alerts.
RtMicDenied ==
  /\ rtMicPending > 0
  /\ rtMicPending' = rtMicPending - 1
  /\ UNCHANGED << rtStatus, rtTranscription, rtTranscriber, rtLoad, rtSessions,
                  rtRecState, rtRecorderRef, rtChunks, rtIsBusy, rtTimers,
                  rtIntervalRef, rtLiveStreams, rtStreamRef, rtFinalTimers,
                  rtCalls, rtCallCount, rtFinalId, rtFinalText, rtLastWriteId,
                  rtThrown >>
  /\ RtFrame

\* stopRecording (the Stop button is rendered only while status is
\* 'recording').
RtStopRecording ==
  /\ rtRecorderRef # 0
  /\ rtStatus = "recording"
  /\ rtTimers' = rtTimers \ {rtIntervalRef}
  /\ rtRecState' = [rtRecState EXCEPT ![rtRecorderRef] = "stopping"]
  /\ rtStatus' = "processing"
  /\ rtLiveStreams' = rtLiveStreams \ {rtStreamRef}
  /\ rtFinalTimers' = rtFinalTimers + 1
  /\ rtThrown' = FALSE
  /\ UNCHANGED << rtTranscription, rtTranscriber, rtLoad, rtMicPending,
                  rtSessions, rtRecorderRef, rtChunks, rtIsBusy, rtIntervalRef,
                  rtStreamRef, rtCalls, rtCallCount, rtFinalId, rtFinalText,
                  rtLastWriteId >>
  /\ RtFrame

\* ondataavailable: start() is called without a timeslice, so a recorder
\* delivers its data once, after stop().
RtDataAvailable(r, size) ==
  /\ rtRecState[r] = "stopping"
  /\ rtRecState' = [rtRecState EXCEPT ![r] = "inactive"]
  /\ rtChunks' = IF size > 0 THEN rtChunks + 1 ELSE rtChunks
  /\ UNCHANGED << rtStatus, rtTranscription, rtTranscriber, rtLoad,
                  rtMicPending, rtSessions, rtRecorderRef, rtIsBusy, rtTimers,
                  rtIntervalRef, rtLiveStreams, rtStreamRef, rtFinalTimers,
                  rtCalls, rtCallCount, rtFinalId, rtFinalText, rtLastWriteId,
                  rtThrown >>
  /\ RtFrame

\* processRealtimeAudio up to its await: TRUE when the two early returns are
\* not taken and the pipeline is invoked.
RtInvokes(isFinal) ==
  /\ ~ (~rtTranscriber \/ (rtIsBusy /\ ~isFinal))
  /\ rtChunks # 0

\* The pipeline call processRealtimeAudio starts.
RtNewCall(isFinal) ==
  [id |-> rtCallCount + 1, final |-> isFinal, sess |-> rtSessions]

\* A tick of a scheduled interval: processRealtimeAudio(false).  A tick that
\* takes an early return changes nothing.
RtTimerTick(t) ==
  /\ t \in rtTimers
  /\ RtInvokes(FALSE)
  /\ rtCallCount < MaxCalls
  /\ rtIsBusy' = TRUE
  /\ rtCalls' = rtCalls \cup {RtNewCall(FALSE)}
  /\ rtCallCount' = rtCallCount + 1
  /\ UNCHANGED << rtStatus, rtTranscription, rtTranscriber, rtLoad,
                  rtMicPending, rtSessions, rtRecState, rtRecorderRef,
                  rtChunks, rtTimers, rtIntervalRef, rtLiveStreams,
                  rtStreamRef, rtFinalTimers, rtFinalId, rtFinalText,
                  rtLastWriteId, rtThrown >>
  /\ RtFrame

\* The setTimeout callback of stopRecording: processRealtimeAudio(true), then
\* setStatus("ready") once it has returned.
RtFinalTimeout ==
  /\ rtFinalTimers > 0
  /\ rtFinalTimers' = rtFinalTimers - 1
  /\ IF RtInvokes(TRUE)
       THEN /\ rtCallCount < MaxCalls
            /\ rtIsBusy' = TRUE
            /\ rtCalls' = rtCalls \cup {RtNewCall(TRUE)}
            /\ rtCallCount' = rtCallCount + 1
            /\ UNCHANGED rtStatus
       ELSE /\ rtStatus' = "ready"
            /\ UNCHANGED << rtIsBusy, rtCalls, rtCallCount >>
  /\ UNCHANGED << rtTranscription, rtTranscriber, rtLoad, rtMicPending,
                  rtSessions, rtRecState, rtRecorderRef, rtChunks, rtTimers,
                  rtIntervalRef, rtLiveStreams, rtStreamRef, rtFinalId,
                  rtFinalText, rtLastWriteId, rtThrown >>
  /\ RtFrame

\* A pipeline call resolves: the text is written when it is non-empty, the
\* finally block clears isBusy, and the final pass's caller sets 'ready'.
RtCallResolve(c, out) ==
  /\ c \in rtCalls
  /\ rtCalls' = rtCalls \ {c}
  /\ IF out.text # NoText
       THEN /\ rtTranscription' = out.text
            /\ rtLastWriteId' = c.id
            /\ IF c.final
                 THEN rtFinalId' = c.id /\ rtFinalText' = out.text
                 ELSE UNCHANGED << rtFinalId, rtFinalText >>
       ELSE UNCHANGED << rtTranscription, rtLastWriteId, rtFinalId,
                         rtFinalText >>
  /\ rtIsBusy' = FALSE
  /\ rtStatus' = IF c.final THEN "ready" ELSE rtStatus
  /\ UNCHANGED << rtTranscriber, rtLoad, rtMicPending, rtSessions, rtRecState,
                  rtRecorderRef, rtChunks, rtTimers, rtIntervalRef,
                  rtLiveStreams, rtStreamRef, rtFinalTimers, rtCallCount,
                  rtThrown >>
  /\ RtFrame

\* A pipeline call throws: the catch block logs, the finally block clears
\* isBusy, and the final pass's caller sets 'ready'.
RtCallReject(c) ==
  /\ c \in rtCalls
  /\ rtCalls' = rtCalls \ {c}
  /\ rtIsBusy' = FALSE
  /\ rtStatus' = IF c.final THEN "ready" ELSE rtStatus
  /\ rtThrown' = TRUE
  /\ UNCHANGED << rtTranscription, rtTranscriber, rtLoad, rtMicPending,
                  rtSessions, rtRecState, rtRecorderRef, rtChunks, rtTimers,
                  rtIntervalRef, rtLiveStreams, rtStreamRef, rtFinalTimers,
                  rtCallCount, rtFinalId, rtFinalText, rtLastWriteId >>
  /\ RtFrame

\* The Clear button (disabled while transcription is empty).
RtClear ==
  /\ rtTranscription # NoText
  /\ rtTranscription' = NoText
  /\ rtFinalId' = 0
  /\ rtFinalText' = NoText
  /\ rtLastWriteId' = 0
  /\ UNCHANGED << rtStatus, rtTranscriber, rtLoad, rtMicPending, rtSessions,
                  rtRecState, rtRecorderRef, rtChunks, rtIsBusy, rtTimers,
                  rtIntervalRef, rtLiveStreams, rtStreamRef, rtFinalTimers,
                  rtCalls, rtCallCount, rtThrown >>
  /\ RtFrame

RtNext ==
  \/ RtLoadResolve
  \/ RtLoadReject
  \/ RtStartRecording
  \/ RtMicGranted
  \/ RtMicDenied
  \/ RtStopRecording
  \/ \E r \in 1..MaxSessions, size \in {0, 1} : RtDataAvailable(r, size)
  \/ \E t \in 1..MaxSessions : RtTimerTick(t)
  \/ RtFinalTimeout
  \/ \E c \in rtCalls, out \in Outputs : RtCallResolve(c, out)
  \/ \E c \in rtCalls : RtCallReject(c)
  \/ RtClear

\* =========================================================================
\* Chunk-streaming component (src/app.jsx 350-573)
\* =========================================================================
ErrLoadText == << "Error loading model. Does your browser support WebGPU?" >>
ErrFinalText == << "[Error transcribing final audio]" >>

CsInit ==
  /\ csStatus = "loading"
  /\ csTranscription = NoText
  /\ csTranscriber = FALSE
  /\ csLoad = "pending"
  /\ csMicPending = 0
  /\ csSessions = 0
  /\ csRecState = [r \in 1..MaxSessions |-> "none"]
  /\ csRecorderRef = 0
  /\ csChunks = 0
  /\ csInFlight = FALSE
  /\ csLiveStreams = {}
  /\ csCalls = {}
  /\ csCallCount = 0

\* loadModel: the pipeline() promise resolves.
CsLoadResolve ==
  /\ csLoad = "pending"
  /\ csLoad' = "done"
  /\ csTranscriber' = TRUE
  /\ csStatus' = "ready"
  /\ UNCHANGED << csTranscription, csMicPending, csSessions, csRecState,
                  csRecorderRef, csChunks, csInFlight, csLiveStreams, csCalls,
                  csCallCount >>
  /\ CsFrame

\* loadModel: the pipeline() promise rejects; the catch block writes a text
\* and leaves status alone.
CsLoadReject ==
  /\ csLoad = "pending"
  /\ csLoad' = "failed"
  /\ csTranscription' = ErrLoadText
  /\ UNCHANGED << csStatus, csTranscriber, csMicPending, csSessions,
                  csRecState, csRecorderRef, csChunks, csInFlight,
                  csLiveStreams, csCalls, csCallCount >>
  /\ CsFrame

\* The Record button is rendered when status is not 'recording' and is
\* disabled while status is 'loading' or 'processing'.
CsRecordEnabled == csStatus \notin {"recording", "loading", "processing"}

\* startRecording up to its await of getUserMedia.
CsStartRecording ==
  /\ CsRecordEnabled
  /\ csMicPending < MaxMicPending
  /\ csMicPending' = csMicPending + 1
  /\ UNCHANGED << csStatus, csTranscription, csTranscriber, csLoad,
                  csSessions, csRecState, csRecorderRef, csChunks, csInFlight,
                  csLiveStreams, csCalls, csCallCount >>
  /\ CsFrame

\* startRecording after getUserMedia resolved.
CsMicGranted ==
  /\ csMicPending > 0
  /\ csSessions < MaxSessions
  /\ LET s == csSessions + 1 IN
       /\ csSessions' = s
       /\ csRecorderRef' = s
       /\ csRecState' = [csRecState EXCEPT ![s] = "recording"]
       /\ csLiveStreams' = csLiveStreams \cup {s}
  /\ csMicPending' = csMicPending - 1
  /\ csChunks' = 0
  /\ csStatus' = "recording"
  /\ UNCHANGED << csTranscription, csTranscriber, csLoad, csInFlight, csCalls,
                  csCallCount >>
  /\ CsFrame

\* startRecording when getUserMedia rejects: the catch block only alerts.
CsMicDenied ==
  /\ csMicPending > 0
  /\ csMicPending' = csMicPending - 1
  /\ UNCHANGED << csStatus, csTranscription, csTranscriber, csLoad,
                  csSessions, csRecState, csRecorderRef, csChunks, csInFlight,
                  csLiveStreams, csCalls, csCallCount >>
  /\ CsFrame

\* stopRecording: stops the recorder the ref holds and its stream's tracks.
\* The recorder's last dataavailable and its stop event follow later.
CsStopRecording ==
  /\ csRecorderRef # 0
  /\ csStatus = "recording"
  /\ csRecState[csRecorderRef] = "recording"
  /\ csRecState' = [csRecState EXCEPT ![csRecorderRef] = "stopping"]
  /\ csLiveStreams' = csLiveStreams \ {csRecorderRef}
  /\ UNCHANGED << csStatus, csTranscription, csTranscriber, csLoad,
                  csMicPending, csSessions, csRecorderRef, csChunks,
                  csInFlight, csCalls, csCallCount >>
  /\ CsFrame

CsNewCall(isFinal) == [id |-> csCallCount + 1, final |-> isFinal]

\* ondataavailable of recorder r: a timeslice chunk while it records, or the
\* last chunk after stop().  A chunk of size 0 is ignored.
CsDataAvailable(r, size) ==
  /\ csRecState[r] \in {"recording", "stopping"}
  /\ csRecState[r] = "recording" => size > 0
  /\ csRecState' = [csRecState EXCEPT
                      ![r] = IF @ = "stopping" THEN "flushed" ELSE @]
  /\ IF size = 0
       THEN UNCHANGED << csChunks, csInFlight, csCalls, csCallCount >>
       ELSE /\ csChunks < MaxChunks
            /\ csChunks' = csChunks + 1
            /\ IF csTranscriber /\ ~csInFlight
                 THEN /\ csCallCount < MaxCalls
                      /\ csInFlight' = TRUE
                      /\ csCalls' = csCalls \cup {CsNewCall(FALSE)}
                      /\ csCallCount' = csCallCount + 1
                 ELSE UNCHANGED << csInFlight, csCalls, csCallCount >>
  /\ UNCHANGED << csStatus, csTranscription, csTranscriber, csLoad,
                  csMicPending, csSessions, csRecorderRef, csLiveStreams >>
  /\ CsFrame

\* setTranscription((prev) => prev + (prev ? " " : "") + text)
CsAppend(prev, text) == prev \o text

\* onstop of recorder r: processAudio up to its await, or to its end when no
\* pipeline call is made.
CsProcessAudio(r) ==
  /\ csRecState[r] = "flushed"
  /\ csRecState' = [csRecState EXCEPT ![r] = "inactive"]
  /\ IF csChunks > 0 /\ csTranscriber
       THEN /\ csCallCount < MaxCalls
            /\ csStatus' = "processing"
            /\ csCalls' = csCalls \cup {CsNewCall(TRUE)}
            /\ csCallCount' = csCallCount + 1
            /\ UNCHANGED csChunks
       ELSE /\ csStatus' = "ready"
            /\ csChunks' = 0
            /\ UNCHANGED << csCalls, csCallCount >>
  /\ UNCHANGED << csTranscription, csTranscriber, csLoad, csMicPending,
                  csSessions, csRecorderRef, csInFlight, csLiveStreams >>
  /\ CsFrame

\* A pipeline call resolves.  An incremental chunk call appends its text and
\* clears inFlight; the final pass appends its text and runs processAudio's
\* finally block.
CsCallResolve(c, out) ==
  /\ c \in csCalls
  /\ csCalls' = csCalls \ {c}
  /\ csTranscription' = IF out.text # NoText
                          THEN CsAppend(csTranscription, out.text)
                          ELSE csTranscription
  /\ IF c.final
       THEN csStatus' = "ready" /\ csChunks' = 0 /\ UNCHANGED csInFlight
       ELSE csInFlight' = FALSE /\ UNCHANGED << csStatus, csChunks >>
  /\ UNCHANGED << csTranscriber, csLoad, csMicPending, csSessions, csRecState,
                  csRecorderRef, csLiveStreams, csCallCount >>
  /\ CsFrame

\* A pipeline call throws.  The chunk handler logs and clears inFlight;
\* processAudio appends an error text and runs its finally block.
CsCallReject(c) ==
  /\ c \in csCalls
  /\ csCalls' = csCalls \ {c}
  /\ IF c.final
       THEN /\ csTranscription' = csTranscription \o ErrFinalText
            /\ csStatus' = "ready"
            /\ csChunks' = 0
            /\ UNCHANGED csInFlight
       ELSE /\ csInFlight' = FALSE
            /\ UNCHANGED << csTranscription, csStatus, csChunks >>
  /\ UNCHANGED << csTranscriber, csLoad, csMicPending, csSessions, csRecState,
                  csRecorderRef, csLiveStreams, csCallCount >>
  /\ CsFrame

\* clearText.
CsClear ==
  /\ csTranscription # NoText
  /\ csTranscription' = NoText
  /\ UNCHANGED << csStatus, csTranscriber, csLoad, csMicPending, csSessions,
                  csRecState, csRecorderRef, csChunks, csInFlight,
                  csLiveStreams, csCalls, csCallCount >>
  /\ CsFrame

CsNext ==
  \/ CsLoadResolve
  \/ CsLoadReject
  \/ CsStartRecording
  \/ CsMicGranted
  \/ CsMicDenied
  \/ CsStopRecording
  \/ \E r \in 1..MaxSessions, size \in {0, 1} : CsDataAvailable(r, size)
  \/ \E r \in 1..MaxSessions : CsProcessAudio(r)
  \/ \E c \in csCalls, out \in Outputs : CsCallResolve(c, out)
  \/ \E c \in csCalls : CsCallReject(c)
  \/ CsClear

\* =========================================================================
\* Token-guarded press-and-hold components
\*   "decode"   src/app.jsx 19-299      "url"      src/app.jsx 591-963
\*   "resample" unnamed/part_002        "fallback" unnamed/part_003
\* They share loadModel, startRecording, stopRecording and the pointer
\* handlers and differ in transcribeAudio.
\* =========================================================================
Variants == {"decode", "url", "resample", "fallback"}
ProgressValues == {50, 100}

ModelNotLoadedText == << "(Model not loaded)" >>
PipelineErrorText == << "(Pipeline error)" >>
NoSpeechText == << "(No speech detected)" >>
UnexpectedText == << "(Unexpected output format)" >>
FormatText == << "(Audio format not supported)" >>
TooShortText == << "(Recording too short - hold longer)" >>
NoAudioText == << "(No audio detected - check microphone)" >>

\* After the mount effect: the first loadModel run is awaiting pipeline().
PhInit(variants) ==
  /\ phVariant \in variants
  /\ phStatus = "loading"
  /\ phTranscription = NoText
  /\ phProgress = 0
  /\ phTranscriber = 0
  /\ phLoadToken = 1
  /\ phLoads = {1}
  /\ phPointerActive = FALSE
  /\ phMicPending = 0
  /\ phSessions = 0
  /\ phRecState = [r \in 1..MaxSessions |-> "none"]
  /\ phRecorderRef = 0
  /\ phChunks = [r \in 1..MaxSessions |-> 0]
  /\ phLiveStreams = {}
  /\ phJob = [r \in 1..MaxSessions |-> "none"]
  /\ phAttempts = [r \in 1..MaxSessions |-> 0]
  /\ phJobThrown = [r \in 1..MaxSessions |-> FALSE]
  /\ phStaleSettled = FALSE
  /\ phBefore = NoText

\* The [selectedModel] effect runs loadModel again, up to its await.
PhLoadModel ==
  /\ phLoadToken < MaxLoads
  /\ phLoadToken' = phLoadToken + 1
  /\ phLoads' = phLoads \cup {phLoadToken + 1}
  /\ phStatus' = "loading"
  /\ phProgress' = 0
  /\ phTranscriber' = 0
  /\ UNCHANGED << phVariant, phTranscription, phPointerActive, phMicPending,
                  phSessions, phRecState, phRecorderRef, phChunks,
                  phLiveStreams, phJob, phAttempts, phJobThrown,
                  phStaleSettled, phBefore >>
  /\ PhFrame

\* Mutant of PhIsCurrent: the token comparison is dropped.
PhIsCurrentUnguarded(myToken) == TRUE

\* if (loadTokenRef.current !== myToken) return;
PhIsCurrent(myToken) == phLoadToken = myToken

\* progress_callback of the load with token myToken, for a 'progress' event.
PhProgress(myToken, p) ==
  /\ myToken \in phLoads
  /\ phProgress' = IF PhIsCurrent(myToken) THEN p ELSE phProgress
  /\ UNCHANGED << phVariant, phStatus, phTranscription, phTranscriber,
                  phLoadToken, phLoads, phPointerActive, phMicPending,
                  phSessions, phRecState, phRecorderRef, phChunks,
                  phLiveStreams, phJob, phAttempts, phJobThrown,
                  phStaleSettled, phBefore >>
  /\ PhFrame

\* loadModel after pipeline() resolved.
PhLoadResolve(myToken) ==
  /\ myToken \in phLoads
  /\ phLoads' = phLoads \ {myToken}
  /\ IF PhIsCurrent(myToken)
       THEN phTranscriber' = myToken /\ phStatus' = "ready"
       ELSE UNCHANGED << phTranscriber, phStatus >>
  /\ phStaleSettled' = (phStaleSettled \/ ~PhIsCurrent(myToken))
  /\ UNCHANGED << phVariant, phTranscription, phProgress, phLoadToken,
                  phPointerActive, phMicPending, phSessions, phRecState,
                  phRecorderRef, phChunks, phLiveStreams, phJob, phAttempts,
                  phJobThrown, phBefore >>
  /\ PhFrame

\* loadModel after pipeline() rejected.
PhLoadReject(myToken) ==
  /\ myToken \in phLoads
  /\ phLoads' = phLoads \ {myToken}
  /\ phStatus' = IF PhIsCurrent(myToken) THEN "error" ELSE phStatus
  /\ phStaleSettled' = (phStaleSettled \/ ~PhIsCurrent(myToken))
  /\ UNCHANGED << phVariant, phTranscription, phProgress, phTranscriber,
                  phLoadToken, phPointerActive, phMicPending, phSessions,
                  phRecState, phRecorderRef, phChunks, phLiveStreams, phJob,
                  phAttempts, phJobThrown, phBefore >>
  /\ PhFrame

\* handlePointerDown with the primary button, then startRecording up to its
\* await of getUserMedia.
PhPointerDown ==
  /\ phStatus = "ready"
  /\ phMicPending < MaxMicPending
  /\ phPointerActive' = TRUE
  /\ phStatus' = "recording"
  /\ phTranscription' = NoText
  /\ phBefore' = phTranscription
  /\ phMicPending' = phMicPending + 1
  /\ UNCHANGED << phVariant, phProgress, phTranscriber, phLoadToken, phLoads,
                  phSessions, phRecState, phRecorderRef, phChunks,
                  phLiveStreams, phJob, phAttempts, phJobThrown,
                  phStaleSettled >>
  /\ PhFrame

\* startRecording after getUserMedia resolved.
PhMicGranted ==
  /\ phMicPending > 0
  /\ phSessions < MaxSessions
  /\ LET s == phSessions + 1 IN
       /\ phSessions' = s
       /\ phRecorderRef' = s
       /\ phRecState' = [phRecState EXCEPT ![s] = "recording"]
       /\ phLiveStreams' = phLiveStreams \cup {s}
  /\ phMicPending' = phMicPending - 1
  /\ phBefore' = NoText
  /\ UNCHANGED << phVariant, phStatus, phTranscription, phProgress,
                  phTranscriber, phLoadToken, phLoads, phPointerActive,
                  phChunks, phJob, phAttempts, phJobThrown,
                  phStaleSettled >>
  /\ PhFrame

\* startRecording when getUserMedia rejects.
PhMicDenied ==
  /\ phMicPending > 0
  /\ phMicPending' = phMicPending - 1
  /\ phStatus' = "ready"
  /\ phBefore' = NoText
  /\ UNCHANGED << phVariant, phTranscription, phProgress, phTranscriber,
                  phLoadToken, phLoads, phPointerActive, phSessions,
                  phRecState, phRecorderRef, phChunks, phLiveStreams, phJob,
                  phAttempts, phJobThrown,
                  phStaleSettled >>
  /\ PhFrame

\* stopRecording: stop() when the ref holds a recorder that is recording.
PhStopRecording ==
  IF phRecorderRef # 0 /\ phRecState[phRecorderRef] = "recording"
    THEN phRecState' = [phRecState EXCEPT ![phRecorderRef] = "stopping"]
    ELSE UNCHANGED phRecState

\* handlePointerUp (pointerup or pointercancel on the window).
PhPointerUp ==
  /\ phPointerActive /\ phStatus = "recording"
  /\ phPointerActive' = FALSE
  /\ PhStopRecording
  /\ UNCHANGED << phVariant, phStatus, phTranscription, phProgress,
                  phTranscriber, phLoadToken, phLoads, phMicPending,
                  phSessions, phRecorderRef, phChunks, phLiveStreams, phJob,
                  phAttempts, phJobThrown,
                  phStaleSettled, phBefore >>
  /\ PhFrame

\* recorder.ondataavailable: start() is called without a timeslice, so a
\* recorder delivers its data once, after stop().
PhDataAvailable(r, size) ==
  /\ phRecState[r] = "stopping"
  /\ phRecState' = [phRecState EXCEPT ![r] = "flushed"]
  /\ phChunks' = [phChunks EXCEPT ![r] = IF size > 0 THEN @ + 1 ELSE @]
  /\ UNCHANGED << phVariant, phStatus, phTranscription, phProgress,
                  phTranscriber, phLoadToken, phLoads, phPointerActive,
                  phMicPending, phSessions, phRecorderRef, phLiveStreams,
                  phJob, phAttempts, phJobThrown,
                  phStaleSettled, phBefore >>
  /\ PhFrame

\* transcribeAudio up to its first await, for the blob of recording r: the
\* text it writes at once (if any) and the stage it then waits in ("done"
\* when it has returned).
PhTranscribeStart ==
  IF phTranscriber = 0
    THEN [stage |-> "done",
          text |-> IF phVariant \in {"url", "resample"}
                     THEN ModelNotLoadedText ELSE phTranscription]
    ELSE [stage |-> CASE phVariant = "decode" -> "decode"
                      [] phVariant = "resample" -> "decode"
                      [] phVariant = "url" -> "call"
                      [] phVariant = "fallback" -> "call",
          text |-> phTranscription]

\* Mutant of PhEnter: recorder.onstop without its last setStatus("ready").
PhEnterKeepsStatus(r, stage, text, first) ==
  /\ phJob' = [phJob EXCEPT ![r] = stage]
  /\ phTranscription' = text
  /\ phAttempts' = [phAttempts EXCEPT
                      ![r] = IF stage \in {"call", "call2"} THEN @ + 1 ELSE @]
  /\ phStatus' = IF first THEN "processing" ELSE phStatus

\* The job of recording r moves to a stage and writes a text; entering "call"
\* or "call2" invokes the pipeline.  A job that is done lets recorder.onstop
\* go on to setStatus("ready"); first says onstop has just set 'processing'.
PhEnter(r, stage, text, first) ==
  /\ phJob' = [phJob EXCEPT ![r] = stage]
  /\ phTranscription' = text
  /\ phAttempts' = [phAttempts EXCEPT
                      ![r] = IF stage \in {"call", "call2"} THEN @ + 1 ELSE @]
  /\ phStatus' = IF stage = "done" THEN "ready"
                 ELSE IF first THEN "processing" ELSE phStatus

\* recorder.onstop of recorder r.
PhRecorderStop(r) ==
  /\ phRecState[r] = "flushed"
  /\ phRecState' = [phRecState EXCEPT ![r] = "inactive"]
  /\ phLiveStreams' = phLiveStreams \ {r}
  /\ IF phChunks[r] = 0
       THEN /\ phStatus' = "ready"
            /\ UNCHANGED << phJob, phTranscription, phAttempts >>
       ELSE PhEnter(r, PhTranscribeStart.stage, PhTranscribeStart.text, TRUE)
  /\ UNCHANGED << phVariant, phProgress, phTranscriber, phLoadToken, phLoads,
                  phPointerActive, phMicPending, phSessions, phRecorderRef,
                  phChunks, phJobThrown,
                  phStaleSettled, phBefore >>
  /\ PhFrame

\* What decodeAudioData can resolve to: audio that goes on to the pipeline,
\* audio shorter than 0.1 s, audio whose RMS is below 0.001.
Decoded == {"ok", "short", "silent"}

\* blob.arrayBuffer() and decodeAudioData resolve.  The pipeline is then
\* called through transcriberRef.current, which throws when a later loadModel
\* has set the ref to null.
PhDecodeResolve(r, audio) ==
  /\ phJob[r] \in {"decode", "decode2"}
  /\ IF phVariant = "resample" /\ audio = "short"
       THEN PhEnter(r, "done", TooShortText, FALSE)
       ELSE IF phVariant = "resample" /\ audio = "silent"
         THEN PhEnter(r, "done", NoAudioText, FALSE)
       ELSE IF phTranscriber = 0
         THEN PhEnter(r, "done",
                      IF phVariant = "resample"
                        THEN PipelineErrorText ELSE phTranscription, FALSE)
       ELSE PhEnter(r, IF phJob[r] = "decode2" THEN "call2" ELSE "call",
                    phTranscription, FALSE)
  /\ UNCHANGED << phVariant, phProgress, phTranscriber, phLoadToken, phLoads,
                  phPointerActive, phMicPending, phSessions, phRecState,
                  phRecorderRef, phChunks, phLiveStreams, phJobThrown,
                  phStaleSettled, phBefore >>
  /\ PhFrame

\* decodeAudioData rejects.
PhDecodeReject(r) ==
  /\ phJob[r] \in {"decode", "decode2"}
  /\ PhEnter(r, "done",
             IF phVariant = "resample" THEN FormatText ELSE phTranscription,
             FALSE)
  /\ UNCHANGED << phVariant, phProgress, phTranscriber, phLoadToken, phLoads,
                  phPointerActive, phMicPending, phSessions, phRecState,
                  phRecorderRef, phChunks, phLiveStreams, phJobThrown,
                  phStaleSettled, phBefore >>
  /\ PhFrame

\* A variant of PhResultText that writes the output's text whatever it is.
PhResultTextUnmarked(out) == out.text

\* The text transcribeAudio writes for a pipeline output.
PhResultText(out) ==
  IF phVariant \in {"url", "resample"}
    THEN IF ~out.hasText THEN UnexpectedText
         ELSE IF Len(out.text) > 0 THEN out.text ELSE NoSpeechText
    ELSE IF out.text # NoText THEN out.text ELSE phTranscription

\* The pipeline call of recording r resolves.
PhCallResolve(r, out) ==
  /\ phJob[r] \in {"call", "call2"}
  /\ PhEnter(r, "done", PhResultText(out), FALSE)
  /\ UNCHANGED << phVariant, phProgress, phTranscriber, phLoadToken, phLoads,
                  phPointerActive, phMicPending, phSessions, phRecState,
                  phRecorderRef, phChunks, phLiveStreams, phJobThrown,
                  phStaleSettled, phBefore >>
  /\ PhFrame

\* The pipeline call of recording r throws.
PhCallReject(r) ==
  /\ phJob[r] \in {"call", "call2"}
  /\ phJobThrown' = [phJobThrown EXCEPT ![r] = TRUE]
  /\ IF phVariant = "fallback" /\ phJob[r] = "call"
       THEN PhEnter(r, "decode2", phTranscription, FALSE)
       ELSE PhEnter(r, "done",
                    IF phVariant \in {"url", "resample"}
                      THEN PipelineErrorText ELSE phTranscription, FALSE)
  /\ UNCHANGED << phVariant, phProgress, phTranscriber, phLoadToken, phLoads,
                  phPointerActive, phMicPending, phSessions, phRecState,
                  phRecorderRef, phChunks, phLiveStreams,
                  phStaleSettled, phBefore >>
  /\ PhFrame

\* The Clear button (disabled while transcription is empty).
PhClear ==
  /\ phTranscription # NoText
  /\ phTranscription' = NoText
  /\ UNCHANGED << phVariant, phStatus, phProgress, phTranscriber, phLoadToken,
                  phLoads, phPointerActive, phMicPending, phSessions,
                  phRecState, phRecorderRef, phChunks, phLiveStreams, phJob,
                  phAttempts, phJobThrown,
                  phStaleSettled, phBefore >>
  /\ PhFrame

PhNext ==
  \/ PhLoadModel
  \/ \E g \in 1..MaxLoads, p \in ProgressValues : PhProgress(g, p)
  \/ \E g \in 1..MaxLoads : PhLoadResolve(g)
  \/ \E g \in 1..MaxLoads : PhLoadReject(g)
  \/ PhPointerDown
  \/ PhMicGranted
  \/ PhMicDenied
  \/ PhPointerUp
  \/ \E r \in 1..MaxSessions, size \in {0, 1} : PhDataAvailable(r, size)
  \/ \E r \in 1..MaxSessions : PhRecorderStop(r)
  \/ \E r \in 1..MaxSessions, audio \in Decoded : PhDecodeResolve(r, audio)
  \/ \E r \in 1..MaxSessions : PhDecodeReject(r)
  \/ \E r \in 1..MaxSessions, out \in Outputs : PhCallResolve(r, out)
  \/ \E r \in 1..MaxSessions : PhCallReject(r)
  \/ PhClear

\* =========================================================================
\* Transcription worker
\*   "part_000"            unnamed/part_000
\*   "transcriptionWorker" src/transcriptionWorker.js
\* =========================================================================
\* ------------------------------------------------ ArrayBuffer payloads
\* An ArrayBuffer is the sequence of its bytes; the byte at offset o is
\* buf[o + 1].
RIFF == << 82, 73, 70, 70 >>
DATA == << 100, 97, 116, 97 >>

\* DataView.getUint32(o, true)
GetUint32(buf, o) ==
  buf[o + 1] + 256 * buf[o + 2] + 65536 * buf[o + 3] + 16777216 * buf[o + 4]

\* DataView.getInt16(o, true)
GetInt16(buf, o) ==
  LET u == buf[o + 1] + 256 * buf[o + 2]
  IN IF u >= 32768 THEN u - 65536 ELSE u

\* float32[i] = int16 < 0 ? int16 / 32768 : int16 / 32767, as a fraction.
WavSample(int16) ==
  [num |-> int16, den |-> IF int16 < 0 THEN 32768 ELSE 32767]

\* The while loop that locates the 'data' chunk, entered with dataOffset =
\* off: the values of dataOffset and dataSize when the loop is left.
RECURSIVE WavFindData(_, _)
WavFindData(buf, off) ==
  IF off + 8 <= Len(buf)
    THEN LET chunkId == SubSeq(buf, off + 1, off + 4)
             chunkSize == GetUint32(buf, off + 4)
         IN IF chunkId = DATA
              THEN [dataOffset |-> off + 8, dataSize |-> chunkSize]
              ELSE WavFindData(buf, off + 8 + chunkSize)
    ELSE [dataOffset |-> off, dataSize |-> 0]

\* new Float32Array(payload): a RangeError unless byteLength is a multiple
\* of 4; otherwise the bytes seen as byteLength / 4 floats.
RawSamples(buf) ==
  IF Len(buf) % 4 = 0
    THEN [kind |-> "raw", length |-> Len(buf) \div 4, samples |-> << >>,
          sampleRate |-> 0, reads |-> {}]
    ELSE [kind |-> "throw", length |-> 0, samples |-> << >>,
          sampleRate |-> 0, reads |-> {}]

\* The for loop over the samples of the data chunk: i runs while
\* i < dataSize / 2, so an odd dataSize gives one more iteration than the
\* Float32Array has elements.  The offsets getInt16 is called with, up to and
\* including the first one that is out of range (a RangeError).
WavReadOffsets(buf, dataOffset, dataSize) ==
  LET iterations == (dataSize + 1) \div 2
      at(i) == dataOffset + 2 * i
      inRange(i) == at(i) + 2 <= Len(buf)
  IN {at(i) : i \in {j \in 0..(iterations - 1) :
                       \A k \in 0..(j - 1) : inRange(k)}}

\* The handling of an ArrayBuffer payload in transcriptionWorker.js: the
\* audioInput it produces, or a throw out of the inner catch block.
WavDecode(buf) ==
  IF Len(buf) < 12
    THEN RawSamples(buf)             \* new Uint8Array(payload, 0, 12) throws
    ELSE IF SubSeq(buf, 1, 4) = RIFF
      THEN IF Len(buf) < 28
             THEN RawSamples(buf)    \* view.getUint32(24, true) throws
             ELSE
               LET found == WavFindData(buf, 12)
                   reads == WavReadOffsets(buf, found.dataOffset,
                                           found.dataSize)
                   numSamples == found.dataSize \div 2
               IN IF found.dataSize = 0
                    THEN RawSamples(buf) \* 'WAV data chunk not found'
                    ELSE IF \E o \in reads : o + 2 > Len(buf)
                      THEN [RawSamples(buf) EXCEPT !.reads = reads]
                      ELSE [kind |-> "wav", length |-> numSamples,
                            samples |->
                              [i \in 1..numSamples |->
                                 WavSample(GetInt16(buf,
                                   found.dataOffset + 2 * (i - 1)))],
                            sampleRate |-> GetUint32(buf, 24),
                            reads |-> reads]
      ELSE RawSamples(buf)           \* else branch, then the catch block

\* An audioInput that is not made from an ArrayBuffer.
PlainInput(kind) ==
  [kind |-> kind, length |-> 0, samples |-> << >>, sampleRate |-> 0,
   reads |-> {}]

\* ---- the ArrayBuffers sent to the worker
LE32(v) ==
  << v % 256, (v \div 256) % 256, (v \div 65536) % 256,
     (v \div 16777216) % 256 >>

\* One chunk: its id, the size its header declares, and its bytes.
WavChunk(id, declared, body) == id \o LE32(declared) \o body

\* A 'fmt ' chunk for 16-bit mono PCM at the given sample rate.
FmtChunk(rate) ==
  WavChunk(<< 102, 109, 116, 32 >>, 16,
           << 1, 0, 1, 0 >> \o LE32(rate) \o LE32(2 * rate)
             \o << 2, 0, 16, 0 >>)

\* A 'LIST' chunk of 4 bytes.
ListChunk == WavChunk(<< 76, 73, 83, 84 >>, 4, << 73, 78, 70, 79 >>)

\* The bytes of a data chunk: no sample, two samples (-2, 258), or two
\* samples and a stray byte.
DataBodies == { << >>, << 254, 255, 2, 1 >>, << 254, 255, 2, 1, 7 >> }

\* Data chunks whose header declares the size of the body, less, or more.
DataChunks ==
  {WavChunk(DATA, d, body) : body \in DataBodies, d \in {0, 2, 3, 4, 6, 8}}

SampleRates == {16000, 44100}

\* The chunk sequences after the 12-byte header.
WavLayouts ==
  UNION {{FmtChunk(r) \o dc, ListChunk \o FmtChunk(r) \o dc,
          FmtChunk(r) \o ListChunk \o dc} : r \in SampleRates,
                                            dc \in DataChunks}
    \cup {FmtChunk(r) : r \in SampleRates}
    \cup {FmtChunk(r) \o ListChunk : r \in SampleRates}

\* 'RIFF' or 'RIFX', a size field, 'WAVE'.
WavHeader(magic) == magic \o LE32(0) \o << 87, 65, 86, 69 >>

WavBuffers ==
  {WavHeader(RIFF) \o l : l \in WavLayouts}
    \cup {WavHeader(<< 82, 73, 70, 88 >>) \o FmtChunk(16000) \o dc :
            dc \in {WavChunk(DATA, Len(b), b) : b \in DataBodies}}
    \cup {SubSeq(WavHeader(RIFF) \o FmtChunk(16000), 1, n) :
            n \in {0, 4, 10, 12, 24, 27}}

\* A payload of one float, for the requests whose payload does not matter.
WkPlainBuffer == << 0, 0, 128, 63 >>

WkVersions == {"part_000", "transcriptionWorker"}
WkModels == {"Xenova/whisper-tiny.en", "Xenova/whisper-base"}
WkCmds == {"transcribe", "ping"}
\* messageId values a caller can send: the number 0, the empty string, and
\* two ordinary ids.
WkMessageIds == {"0", "''", "id1", "id2"}
\* What a request carries as audio: an audioUrl string, an ArrayBuffer, a
\* typed array, a Blob, some other truthy value, or nothing.
WkAudioForms == {"url", "arraybuffer", "view", "blob", "other", "none"}
\* The requests sent to the worker, in two families.  The first: requests
\* that differ in the pipeline they ask for.
WkModelMessages ==
  [model : WkModels, quantized : BOOLEAN, cmd : {"transcribe"},
   messageId : {"id1"}, audio : {"url"}, payload : {WkPlainBuffer}]
\* The second family: the requests with an audio URL, for every cmd and
\* messageId, and the transcribe requests with id1 for every audio form.
WkRequestMessages ==
  {m \in [model : {"Xenova/whisper-tiny.en"}, quantized : {FALSE},
          cmd : WkCmds, messageId : WkMessageIds, audio : WkAudioForms,
          payload : {WkPlainBuffer}] :
     \/ m.cmd = "transcribe" /\ m.messageId = "id1"
     \/ m.audio = "url"}
\* The third family: requests that carry an ArrayBuffer.
WkWavMessages ==
  [model : {"Xenova/whisper-tiny.en"}, quantized : {FALSE},
   cmd : {"transcribe"}, messageId : {"id1"}, audio : {"arraybuffer"},
   payload : WavBuffers]

WkInit(versions) ==
  /\ wkVersion \in versions
  /\ wkTranscriber = 0
  /\ wkCurrentModel = "null"
  /\ wkCurrentQuantized = "null"
  /\ wkReq = << >>
  /\ wkPosted = {}
  /\ wkDisposed = {}

\* const messageId = msg.messageId || null;
WkOrNull(id) == IF id \in {"0", "''"} THEN "null" ELSE id

\* self.postMessage on behalf of request n; messageId is "absent" when the
\* posted object has no messageId field.
WkPost(n, status, messageId) ==
  [req |-> n, status |-> status, messageId |-> messageId]

\* input is the audioInput the pipeline was invoked with ("none" while it
\* has not been invoked).
WkNewReq(msg, pc, inst, input) ==
  [msg |-> msg, pc |-> pc, inst |-> inst, input |-> input,
   progressed |-> FALSE, updated |-> FALSE]

\* The audioInput the handler builds from msg, kind "throw" when building it
\* throws.
WkAudioInput(msg) ==
  IF wkVersion = "transcriptionWorker"
    THEN CASE msg.audio = "arraybuffer" -> WavDecode(msg.payload)
           [] msg.audio = "none" -> PlainInput("null")
           [] OTHER -> PlainInput(msg.audio)
    ELSE CASE msg.audio = "arraybuffer" -> RawSamples(msg.payload)
           [] msg.audio \in {"url", "view"} -> PlainInput(msg.audio)
           [] OTHER -> PlainInput("throw")

\* The handler of request n from the point where createOrGetPipeline has
\* returned pipeline inst, up to its next await or its end: the request's
\* next pc and the messages posted.
WkAfterPipeline(n, msg, inst) ==
  LET id == WkOrNull(msg.messageId)
      audioInput == WkAudioInput(msg)
      none == PlainInput("none")
  IN IF wkVersion = "transcriptionWorker" /\ msg.cmd = "ping"
       THEN [pc |-> "done", posts |-> {WkPost(n, "pong", id)}, input |-> none]
       ELSE IF audioInput.kind = "throw"
         THEN [pc |-> "done", posts |-> {WkPost(n, "error", id)},
               input |-> none]
         ELSE [pc |-> "calling", posts |-> {}, input |-> audioInput]

\* if (transcriber && (currentModel !== modelId || currentQuantized !== quantized))
WkMustDispose(msg) ==
  /\ wkTranscriber # 0
  /\ (wkCurrentModel # msg.model \/ wkCurrentQuantized # msg.quantized)

\* The message handler from the receipt of msg to its first await (inside
\* createOrGetPipeline when a pipeline has to be loaded).
WkReceive(msg) ==
  /\ Len(wkReq) < (IF msg \in WkWavMessages THEN MaxBuffers ELSE MaxRequests)
  /\ LET n == Len(wkReq) + 1
         kept == IF WkMustDispose(msg) THEN 0 ELSE wkTranscriber
         after == WkAfterPipeline(n, msg, kept)
     IN /\ wkDisposed' = IF WkMustDispose(msg)
                           THEN wkDisposed \cup {wkTranscriber}
                           ELSE wkDisposed
        /\ IF kept = 0
             THEN /\ wkTranscriber' = 0
                  /\ wkCurrentModel' = msg.model
                  /\ wkCurrentQuantized' = msg.quantized
                  /\ wkReq' = Append(wkReq, WkNewReq(msg, "loading", 0,
                                                    PlainInput("none")))
                  /\ wkPosted' = wkPosted \cup {WkPost(n, "initiate", "absent")}
             ELSE /\ wkReq' = Append(wkReq, WkNewReq(msg, after.pc, kept,
                                                    after.input))
                  /\ wkPosted' = wkPosted \cup after.posts
                  /\ UNCHANGED << wkTranscriber, wkCurrentModel,
                                  wkCurrentQuantized >>
  /\ UNCHANGED wkVersion
  /\ WkFrame

\* progress_callback during the pipeline() load of request n.
WkProgress(n) ==
  /\ n \in 1..Len(wkReq)
  /\ wkReq[n].pc = "loading"
  /\ ~wkReq[n].progressed
  /\ wkReq' = [wkReq EXCEPT ![n].progressed = TRUE]
  /\ wkPosted' = wkPosted \cup {WkPost(n, "progress", "absent")}
  /\ UNCHANGED << wkVersion, wkTranscriber, wkCurrentModel,
                  wkCurrentQuantized, wkDisposed >>
  /\ WkFrame

\* pipeline() of request n resolves: the new pipeline is stored in
\* transcriber and the handler goes on with it.
WkLoadResolve(n) ==
  /\ n \in 1..Len(wkReq)
  /\ wkReq[n].pc = "loading"
  /\ wkTranscriber' = n
  /\ LET after == WkAfterPipeline(n, wkReq[n].msg, n) IN
       /\ wkReq' = [wkReq EXCEPT ![n].pc = after.pc, ![n].inst = n,
                                ![n].input = after.input]
       /\ wkPosted' = wkPosted \cup {WkPost(n, "ready", "absent")}
                        \cup after.posts
  /\ UNCHANGED << wkVersion, wkCurrentModel, wkCurrentQuantized, wkDisposed >>
  /\ WkFrame

\* pipeline() of request n rejects.
WkLoadReject(n) ==
  /\ n \in 1..Len(wkReq)
  /\ wkReq[n].pc = "loading"
  /\ wkReq' = [wkReq EXCEPT ![n].pc = "done"]
  /\ wkPosted' =
       wkPosted
         \cup {WkPost(n, "error", WkOrNull(wkReq[n].msg.messageId))}
         \cup IF wkVersion = "transcriptionWorker"
                THEN {WkPost(n, "error", "absent")} ELSE {}
  /\ UNCHANGED << wkVersion, wkTranscriber, wkCurrentModel,
                  wkCurrentQuantized, wkDisposed >>
  /\ WkFrame

\* callback_function during the pipeline call of request n.
WkUpdate(n) ==
  /\ n \in 1..Len(wkReq)
  /\ wkReq[n].pc = "calling"
  /\ ~wkReq[n].updated
  /\ wkReq' = [wkReq EXCEPT ![n].updated = TRUE]
  /\ wkPosted' = wkPosted \cup {WkPost(n, "update", "absent")}
  /\ UNCHANGED << wkVersion, wkTranscriber, wkCurrentModel,
                  wkCurrentQuantized, wkDisposed >>
  /\ WkFrame

\* The pipeline call of request n resolves.
WkCallResolve(n) ==
  /\ n \in 1..Len(wkReq)
  /\ wkReq[n].pc = "calling"
  /\ wkReq' = [wkReq EXCEPT ![n].pc = "done"]
  /\ wkPosted' =
       wkPosted \cup {WkPost(n, "complete", WkOrNull(wkReq[n].msg.messageId))}
  /\ UNCHANGED << wkVersion, wkTranscriber, wkCurrentModel,
                  wkCurrentQuantized, wkDisposed >>
  /\ WkFrame

\* The pipeline call of request n throws.
WkCallReject(n) ==
  /\ n \in 1..Len(wkReq)
  /\ wkReq[n].pc = "calling"
  /\ wkReq' = [wkReq EXCEPT ![n].pc = "done"]
  /\ wkPosted' =
       wkPosted \cup {WkPost(n, "error", WkOrNull(wkReq[n].msg.messageId))}
  /\ UNCHANGED << wkVersion, wkTranscriber, wkCurrentModel,
                  wkCurrentQuantized, wkDisposed >>
  /\ WkFrame

WkNext ==
  \/ \E msg \in WkModelMessages : WkReceive(msg)
  \/ \E n \in 1..MaxRequests : WkProgress(n)
  \/ \E n \in 1..MaxRequests : WkLoadResolve(n)
  \/ \E n \in 1..MaxRequests : WkLoadReject(n)
  \/ \E n \in 1..MaxRequests : WkUpdate(n)
  \/ \E n \in 1..MaxRequests : WkCallResolve(n)
  \/ \E n \in 1..MaxRequests : WkCallReject(n)

\* The requests whose pipeline call is pending.
WkCalling == {n \in 1..Len(wkReq) : wkReq[n].pc = "calling"}

\* The worker serving requests for one pipeline that differ in command,
\* messageId and audio form.
WkServe ==
  \/ \E msg \in WkRequestMessages : WkReceive(msg)
  \/ \E n \in 1..MaxRequests : WkProgress(n)
  \/ \E n \in 1..MaxRequests : WkLoadResolve(n)
  \/ \E n \in 1..MaxRequests : WkLoadReject(n)
  \/ \E n \in 1..MaxRequests : WkUpdate(n)
  \/ \E n \in 1..MaxRequests : WkCallResolve(n)
  \/ \E n \in 1..MaxRequests : WkCallReject(n)

\* The worker of transcriptionWorker.js serving requests that carry an
\* ArrayBuffer.
WkDecode ==
  \/ \E msg \in WkWavMessages : WkReceive(msg)
  \/ \E n \in 1..MaxRequests : WkProgress(n)
  \/ \E n \in 1..MaxRequests : WkLoadResolve(n)
  \/ \E n \in 1..MaxRequests : WkLoadReject(n)
  \/ \E n \in 1..MaxRequests : WkUpdate(n)
  \/ \E n \in 1..MaxRequests : WkCallResolve(n)
  \/ \E n \in 1..MaxRequests : WkCallReject(n)

\* The statuses of the messages that end a request.
WkTerminal == {"complete", "error", "pong"}

\* The terminal messages posted for request n.
WkTerminalPosts(n) ==
  {p \in wkPosted : p.req = n /\ p.status \in WkTerminal}

\* =========================================================================
\* resampleAudio (unnamed/part_002)
\* =========================================================================
\* A sample is an integer amplitude; a computed sample is the fraction
\* num / den, and nan when it was computed from an element outside the source
\* array (undefined).  Rates are in Hz; with integer rates the positions
\* i * sourceRate / targetRate are exact fractions.
SampleValues == {-3, 5}
SourceRates == {8000, 16000, 44100, 48000}
TargetRates == {8000, 16000}

\* All sample arrays of length at most n.
SampleArrays(n) == UNION {[1..k -> SampleValues] : k \in 0..n}

\* Variants of the length computation: the source length taken as it is,
\* and one element more than the rounded length.
NewLengthUnscaled(n, sourceRate, targetRate) == n
NewLengthPadded(n, sourceRate, targetRate) ==
  (2 * n * targetRate + sourceRate) \div (2 * sourceRate) + 1

\* Math.round(sourceData.length / sampleRateRatio), with
\* sampleRateRatio = sourceSampleRate / targetSampleRate: Math.round rounds
\* halves up.
NewLength(n, sourceRate, targetRate) ==
  (2 * n * targetRate + sourceRate) \div (2 * sourceRate)

\* The body of the for loop for output index i (from 0).
ResampleElement(x, sourceRate, targetRate, i) ==
  LET index == (i * sourceRate) \div targetRate
      rest == (i * sourceRate) % targetRate   \* fraction = rest / targetRate
  IN IF index + 1 < Len(x)
       THEN [num |-> x[index + 1] * (targetRate - rest) + x[index + 2] * rest,
             den |-> targetRate, nan |-> FALSE, reads |-> {index, index + 1}]
       ELSE IF index < Len(x)
         THEN [num |-> x[index + 1], den |-> 1, nan |-> FALSE,
               reads |-> {index}]
         ELSE [num |-> 0, den |-> 1, nan |-> TRUE, reads |-> {index}]

\* The array built by the loop.
Interpolated(x, sourceRate, targetRate) ==
  [j \in 1..NewLength(Len(x), sourceRate, targetRate) |->
     ResampleElement(x, sourceRate, targetRate, j - 1)]

\* A variant of resampleAudio that takes every source to be sampled at
\* 48 kHz.
ResampleAudioFrom48k(x, sourceRate, targetRate) ==
  Interpolated(x, 48000, targetRate)

\* resampleAudio(audioBuffer, targetSampleRate): sourceData itself when the
\* rates are equal.
ResampleAudio(x, sourceRate, targetRate) ==
  IF sourceRate = targetRate
    THEN [j \in 1..Len(x) |->
            [num |-> x[j], den |-> 1, nan |-> FALSE, reads |-> {j - 1}]]
    ELSE Interpolated(x, sourceRate, targetRate)

RsInit(arrays) ==
  /\ rsSource \in arrays
  /\ rsSourceRate \in SourceRates
  /\ rsTargetRate \in TargetRates
  /\ rsResult = << >>
  /\ rsReturned = FALSE

\* A call of resampleAudio on the decoded audio.
RsResample ==
  /\ ~rsReturned
  /\ rsResult' = ResampleAudio(rsSource, rsSourceRate, rsTargetRate)
  /\ rsReturned' = TRUE
  /\ UNCHANGED << rsSource, rsSourceRate, rsTargetRate >>
  /\ RsFrame

RsNext == RsResample

\* =========================================================================
\* Specifications
\* =========================================================================
\* Each specification runs one component; the others stay in one initial
\* state.
PhIdle == PhInit({"decode"})
WkIdle == WkInit({"part_000"})
RsIdle == RsInit({<< >>}) /\ rsSourceRate = 16000 /\ rsTargetRate = 16000

InitRealtime == RtInit /\ CsInit /\ PhIdle /\ WkIdle /\ RsIdle
SpecRealtime == InitRealtime /\ [][RtNext]_vars

InitChunks == RtInit /\ CsInit /\ PhIdle /\ WkIdle /\ RsIdle
SpecChunks == InitChunks /\ [][CsNext]_vars

InitHold == RtInit /\ CsInit /\ PhInit(Variants) /\ WkIdle /\ RsIdle
SpecHold == InitHold /\ [][PhNext]_vars

InitWorker == RtInit /\ CsInit /\ PhIdle /\ WkInit(WkVersions) /\ RsIdle
SpecWorker == InitWorker /\ [][WkNext]_vars

InitWav == RtInit /\ CsInit /\ PhIdle /\ WkInit({"transcriptionWorker"}) /\ RsIdle
SpecWav == InitWav /\ [][WkDecode]_vars

\* One of the three components is mounted and runs; the other two stay as
\* they were mounted.
InitSessions == RtInit /\ CsInit /\ PhIdle /\ WkIdle /\ RsIdle
SessionsNext ==
  \/ CsInit /\ PhIdle /\ RtNext
  \/ RtInit /\ PhIdle /\ CsNext
  \/ RtInit /\ CsInit /\ PhNext
SpecSessions == InitSessions /\ [][SessionsNext]_vars

\* The pipeline output of the runs that follow status to the end of a
\* recording: status does not depend on the text, so one output with a text
\* stands for all of them, and the Clear button and the progress callback,
\* which write only transcription and progress, are left out.
DrainOutputs == {[hasText |-> TRUE, text |-> <<"a">>]}
RtDrain ==
  \/ RtLoadResolve
  \/ RtLoadReject
  \/ RtStartRecording
  \/ RtMicGranted
  \/ RtMicDenied
  \/ RtStopRecording
  \/ \E r \in 1..MaxSessions, size \in {0, 1} : RtDataAvailable(r, size)
  \/ \E t \in 1..MaxSessions : RtTimerTick(t)
  \/ RtFinalTimeout
  \/ \E c \in rtCalls, out \in DrainOutputs : RtCallResolve(c, out)
  \/ \E c \in rtCalls : RtCallReject(c)
CsDrain ==
  \/ CsLoadResolve
  \/ CsLoadReject
  \/ CsStartRecording
  \/ CsMicGranted
  \/ CsMicDenied
  \/ CsStopRecording
  \/ \E r \in 1..MaxSessions, size \in {0, 1} : CsDataAvailable(r, size)
  \/ \E r \in 1..MaxSessions : CsProcessAudio(r)
  \/ \E c \in csCalls, out \in DrainOutputs : CsCallResolve(c, out)
  \/ \E c \in csCalls : CsCallReject(c)
PhDrain ==
  \/ PhLoadModel
  \/ \E g \in 1..MaxLoads : PhLoadResolve(g)
  \/ \E g \in 1..MaxLoads : PhLoadReject(g)
  \/ PhPointerDown
  \/ PhMicGranted
  \/ PhMicDenied
  \/ PhPointerUp
  \/ \E r \in 1..MaxSessions, size \in {0, 1} : PhDataAvailable(r, size)
  \/ \E r \in 1..MaxSessions : PhRecorderStop(r)
  \/ \E r \in 1..MaxSessions, audio \in Decoded : PhDecodeResolve(r, audio)
  \/ \E r \in 1..MaxSessions : PhDecodeReject(r)
  \/ \E r \in 1..MaxSessions, out \in DrainOutputs : PhCallResolve(r, out)
  \/ \E r \in 1..MaxSessions : PhCallReject(r)

\* One of the components (any of the four press-and-hold variants) is
\* mounted and runs; the other two stay as they were mounted.
DrainNext ==
  \/ CsInit /\ PhIdle /\ RtDrain
  \/ RtInit /\ PhIdle /\ CsDrain
  \/ RtInit /\ CsInit /\ PhDrain

\* The steps the browser itself takes once they are due: a stopped recorder
\* delivers its last dataavailable and its stop event, the 500 ms timeout of
\* stopRecording fires, decodeAudioData settles, and a pipeline call returns
\* or throws.  Clicks, pointer events, permission prompts and model loads are
\* not among them.
RtFlush(r) == \E size \in {0, 1} : RtDataAvailable(r, size)
RtSettle(c) ==
  RtCallReject(c) \/ \E out \in DrainOutputs : RtCallResolve(c, out)
CsFlush(r) ==
  csRecState[r] = "stopping" /\ \E size \in {0, 1} : CsDataAvailable(r, size)
CsSettle(c) ==
  CsCallReject(c) \/ \E out \in DrainOutputs : CsCallResolve(c, out)
PhFlush(r) == \E size \in {0, 1} : PhDataAvailable(r, size)
PhSettle(r) ==
  \/ PhDecodeReject(r)
  \/ \E audio \in Decoded : PhDecodeResolve(r, audio)
  \/ PhCallReject(r)
  \/ \E out \in DrainOutputs : PhCallResolve(r, out)
BrowserStep ==
  \/ RtFinalTimeout
  \/ \E c \in rtCalls : RtSettle(c)
  \/ \E c \in csCalls : CsSettle(c)
  \/ \E r \in 1..MaxSessions :
       \/ RtFlush(r)
       \/ CsFlush(r)
       \/ CsProcessAudio(r)
       \/ PhFlush(r)
       \/ PhRecorderStop(r)
       \/ PhSettle(r)

\* The browser does not withhold a step that is due for ever.
InitDrain == RtInit /\ CsInit /\ PhInit(Variants) /\ WkIdle /\ RsIdle
SpecDrain == InitDrain /\ [][DrainNext]_vars /\ WF_vars(BrowserStep)

InitResample ==
  RtInit /\ CsInit /\ PhIdle /\ WkIdle /\ RsInit(SampleArrays(MaxLen))
SpecResample == InitResample /\ [][RsNext]_vars

InitRequests == RtInit /\ CsInit /\ PhIdle /\ WkInit(WkVersions) /\ RsIdle
SpecRequests == InitRequests /\ [][WkServe]_vars

\* =========================================================================
\* Claims
\* =========================================================================

\* C1: in the periodic-refresh component at most one call to the ASR pipeline
\* is outstanding at any time.
C1_AtMostOneCallRealtime == Cardinality(rtCalls) <= 1

\* C5: once the final pass has written a non-empty text, no pass started
\* before it writes the transcription afterwards, and when status is 'ready'
\* the displayed transcription is the final pass's text.
C5_FinalPassAuthoritative ==
  rtFinalId # 0 =>
    /\ rtLastWriteId >= rtFinalId
    /\ (rtStatus = "ready" => rtTranscription = rtFinalText)

\* C2: in the chunk-streaming component at most one pipeline call is
\* outstanding at any time.
C2_AtMostOneCallChunks == Cardinality(csCalls) <= 1

\* C6: when the final pass of the chunk-streaming component succeeds with a
\* text, the displayed transcription becomes exactly that text.
C6_FinalPassOverwrites ==
  [][\A c \in csCalls, out \in Outputs :
       (c.final /\ out.text # NoText /\ CsCallResolve(c, out))
         => csTranscription' = out.text]_vars

\* C3: the worker never has two pipeline invocations pending at once.
C3_WorkerOneInvocation == Cardinality(WkCalling) <= 1

\* C4: an event (progress, resolve, reject) of a load whose token has been
\* superseded changes none of progress, status and transcriberRef.
C4_StaleLoadDiscarded ==
  [][\A g \in phLoads :
       (g # phLoadToken
          /\ (PhLoadResolve(g) \/ PhLoadReject(g)
                \/ \E p \in ProgressValues : PhProgress(g, p)))
         => UNCHANGED << phProgress, phStatus, phTranscriber >>]_vars

\* C4 witness: a superseded load has settled while the load that superseded
\* it was still pending, and the component still shows that load as loading.
C4_Witness ==
  /\ phStaleSettled
  /\ phLoadToken \in phLoads
  /\ phStatus = "loading"
  /\ phTranscriber = 0

\* C7: a successful startRecording leaves the transcription empty (here in
\* the chunk-streaming component, when getUserMedia has resolved).
C7_ResetAtSessionStart == [][CsMicGranted => csTranscription' = NoText]_vars

\* C8: a pipeline call that throws leaves the transcription as it was.
C8_ThrowKeepsTranscription ==
  [][\A r \in 1..MaxSessions :
       PhCallReject(r) => phTranscription' = phTranscription]_vars

\* C9: when a pipeline call throws and the pass ends, status is 'error'.
C9_ThrowSetsErrorStatus ==
  [][\A r \in 1..MaxSessions :
       (PhCallReject(r) /\ phJob'[r] = "done") => phStatus' = "error"]_vars

\* C10: once a pipeline invocation made for a recording has thrown, no
\* further pipeline invocation is made for that recording.
C10_NoAutomaticRetry ==
  [][\A r \in 1..MaxSessions :
       phJobThrown[r] => phAttempts'[r] = phAttempts[r]]_vars

\* C11: once stopRecording has run for the current recorder, no periodic
\* (non-final) processRealtimeAudio pass starts a pipeline call: a periodic
\* pass is only started while the current recorder is still recording.
C11_NoPeriodicPassAfterStop ==
  [][\A t \in 1..MaxSessions :
       RtTimerTick(t) => rtRecState[rtRecorderRef] = "recording"]_vars


\* C12: the terminal response the message handler posts for a request
\* (complete, error or pong, posted with a messageId field) carries the
\* messageId the request was sent with.
C12_MessageIdRoundTrip ==
  \A p \in wkPosted :
    (p.status \in WkTerminal /\ p.messageId # "absent")
      => p.messageId = wkReq[p.req].msg.messageId

\* C13: every message posted on behalf of a request carries a messageId
\* field.
C13_EveryPostCarriesId == \A p \in wkPosted : p.messageId # "absent"

\* C14: a request never has more than one terminal message, and a request
\* whose handler has ended has exactly one.
C14_ExactlyOneTerminal ==
  \A n \in 1..Len(wkReq) :
    /\ Cardinality(WkTerminalPosts(n)) <= 1
    /\ (wkReq[n].pc = "done" => Cardinality(WkTerminalPosts(n)) = 1)

\* The requests that carried an ArrayBuffer and whose handler has got past
\* the loading of the pipeline.
WavHandled ==
  {n \in 1..Len(wkReq) : /\ wkReq[n].msg.audio = "arraybuffer"
                         /\ wkReq[n].pc \in {"calling", "done"}}

\* The offset of the first chunk with the given id, walking the chunk
\* headers (id, little-endian 32-bit size) from offset off; -1 when the walk
\* ends without finding one.
RECURSIVE ChunkOffset(_, _, _)
ChunkOffset(buf, off, id) ==
  IF off + 8 <= Len(buf)
    THEN IF SubSeq(buf, off + 1, off + 4) = id
           THEN off
           ELSE ChunkOffset(buf, off + 8 + GetUint32(buf, off + 4), id)
    ELSE -1

\* C15: when an ArrayBuffer payload has no RIFF header or no data chunk, the
\* pipeline is not invoked for the request and the request ends with an
\* error response.
C15_WavDecodeFailsWithError ==
  \A n \in WavHandled :
    LET buf == wkReq[n].msg.payload
    IN (\/ Len(buf) < 4
        \/ SubSeq(buf, 1, 4) # RIFF
        \/ ChunkOffset(buf, 12, DATA) = -1)
         => /\ wkReq[n].input.kind = "none"
            /\ wkReq[n].pc = "done"
            /\ \E p \in wkPosted : p.req = n /\ p.status = "error"

\* C16: every 16-bit read the decoder makes for a data chunk is at an offset
\* o with o + 2 <= byteLength, and within the size the chunk declares.
C16_WavReadsWithinBounds ==
  \A n \in WavHandled :
    LET buf == wkReq[n].msg.payload
        at == ChunkOffset(buf, 12, DATA)
    IN \A o \in wkReq[n].input.reads :
         /\ o + 2 <= Len(buf)
         /\ o + 2 <= at + 8 + GetUint32(buf, at + 4)

\* C17: the sample rate of a decoded RIFF buffer is the sample-rate field of
\* its 'fmt ' chunk (4 bytes into the chunk's body), wherever the chunk sits,
\* and its samples are those of the first 'data' chunk.
C17_WavRateFromFmtChunk ==
  \A n \in WavHandled :
    LET buf == wkReq[n].msg.payload
        fmt == ChunkOffset(buf, 12, << 102, 109, 116, 32 >>)
        at == ChunkOffset(buf, 12, DATA)
    IN wkReq[n].input.kind = "wav" =>
         /\ fmt # -1
         /\ wkReq[n].input.sampleRate = GetUint32(buf, fmt + 12)
         /\ \A i \in 1..wkReq[n].input.length :
              wkReq[n].input.samples[i]
                = WavSample(GetInt16(buf, at + 8 + 2 * (i - 1)))

\* C18: when source and target rates are equal, the array resampleAudio
\* returns has the length of the source and the source's value at every
\* index.
C18_ResampleIdentity ==
  (rsReturned /\ rsSourceRate = rsTargetRate) =>
    /\ Len(rsResult) = Len(rsSource)
    /\ \A j \in 1..Len(rsSource) :
         /\ ~rsResult[j].nan
         /\ rsResult[j].num = rsSource[j] * rsResult[j].den

\* C18 witness: resampleAudio has returned for equal rates and a source of
\* at least two samples that differ.
C18_Witness ==
  /\ rsReturned
  /\ rsSourceRate = rsTargetRate
  /\ Len(rsSource) >= 2
  /\ rsSource[1] # rsSource[2]

\* n * targetRate / sourceRate rounded to the nearest integer.
NearestLength == (2 * Len(rsSource) * rsTargetRate + rsSourceRate)
                   \div (2 * rsSourceRate)

\* C19: the output length differs from round(n * targetRate / sourceRate) by
\* at most 1, and is 0 when the source is empty.
C19_ResampleLength ==
  rsReturned =>
    /\ Len(rsResult) - NearestLength \in {-1, 0, 1}
    /\ (Len(rsSource) = 0 => Len(rsResult) = 0)

\* C19 witness: resampleAudio has returned for different rates with an
\* output whose length differs from the source's.
C19_Witness ==
  /\ rsReturned
  /\ rsSourceRate # rsTargetRate
  /\ Len(rsSource) > 0
  /\ Len(rsResult) # Len(rsSource)

\* C20: for every output index i the position floor(i * sourceRate /
\* targetRate) is an index of the source, every element read is inside the
\* source, the output is the last source sample when the upper bracket lies
\* past the end, and otherwise the linear interpolation of the two bracketing
\* source samples.
C20_ResampleInRange ==
  rsReturned =>
    \A j \in 1..Len(rsResult) :
      LET index == ((j - 1) * rsSourceRate) \div rsTargetRate
      IN /\ index \in 0..(Len(rsSource) - 1)
         /\ ~rsResult[j].nan
         /\ rsResult[j].reads \subseteq 0..(Len(rsSource) - 1)
         /\ index + 1 >= Len(rsSource) =>
              rsResult[j].num
                = rsSource[Len(rsSource)] * rsResult[j].den
         /\ index + 1 < Len(rsSource) =>
              LET rest == ((j - 1) * rsSourceRate) % rsTargetRate
              IN rsResult[j].num * rsTargetRate
                   = rsResult[j].den
                       * (rsSource[index + 1] * (rsTargetRate - rest)
                            + rsSource[index + 2] * rest)

\* C20 witness: resampleAudio has returned for different rates and its last
\* output was taken from the last source sample alone.
C20_Witness ==
  /\ rsReturned
  /\ rsSourceRate # rsTargetRate
  /\ Len(rsResult) >= 2
  /\ rsResult[Len(rsResult)].reads = {Len(rsSource) - 1}

\* The explicit markers transcribeAudio writes in place of a recognised text.
MarkerTexts ==
  {ModelNotLoadedText, PipelineErrorText, NoSpeechText, UnexpectedText,
   FormatText, TooShortText, NoAudioText}

\* C21: in the variants whose transcribeAudio writes markers (app.jsx 741-810
\* and part_002), whenever a transcription pass ends, whatever the outcome of
\* decoding and of the pipeline call, the transcription is a recognised
\* (non-empty) text or an explicit marker, and recorder.onstop goes on to set
\* status 'ready'.
C21_PassEndsWithTextOrMarker ==
  [][\A r \in 1..MaxSessions :
       (phVariant \in {"url", "resample"}
          /\ phJob[r] # "done" /\ phJob'[r] = "done")
         => /\ phTranscription' \in Texts \cup MarkerTexts
            /\ phStatus' = "ready"]_vars

\* C21 witness: a pass of such a variant has ended on an empty recognition
\* result and the transcription shows the marker for it.
C21_Witness ==
  /\ phVariant \in {"url", "resample"}
  /\ \E r \in 1..MaxSessions : phJob[r] = "done" /\ phAttempts[r] > 0
  /\ phTranscription = NoSpeechText
  /\ phStatus = "ready"

\* C22: a displayed transcription that is non-empty becomes empty only by the
\* Clear command or by the reset at the start of a recording: no recognition
\* result (text, empty text, missing text) and no other step clears it.
C22_TranscriptNeverCleared ==
  [][/\ (rtTranscription # NoText /\ rtTranscription' = NoText)
          => (RtClear \/ RtMicGranted)
     /\ (csTranscription # NoText /\ csTranscription' = NoText) => CsClear
     /\ (phTranscription # NoText /\ phTranscription' = NoText)
          => (PhClear \/ PhPointerDown)]_vars

\* C22 witness: a recognition result without a text has arrived in a session
\* whose transcription was already showing a text, and the text is still
\* displayed (chunk-streaming component: the recorder is still recording, a
\* chunk call has resolved, no call is pending).
C22_Witness ==
  /\ csRecorderRef # 0
  /\ csRecState[csRecorderRef] = "recording"
  /\ csTranscription \in Texts
  /\ csCallCount >= 2
  /\ csCalls = {}

\* C23: releasing the pointer stops the recording: a recorder is recording
\* only while the pointer that started it is still held, so once a release
\* has been handled no recorder is left recording.
C23_ReleaseStopsRecording ==
  \A r \in 1..MaxSessions : phRecState[r] = "recording" => phPointerActive

\* C24: when the pipeline() load promise rejects, status becomes 'error'
\* (here in the chunk-streaming component).
C24_LoadFailureSetsError == [][CsLoadReject => csStatus' = "error"]_vars

\* The ping requests the worker of transcriptionWorker.js has received.
WkPings ==
  {n \in 1..Len(wkReq) : /\ wkVersion = "transcriptionWorker"
                         /\ wkReq[n].msg.cmd = "ping"}

\* C25: a ping produces no update or complete message and never invokes the
\* pipeline, and once its handler has ended it has been answered by exactly
\* one pong, which carries the messageId the ping was sent with.
C25_PingAnsweredByOnePong ==
  \A n \in WkPings :
    /\ wkReq[n].pc # "calling"
    /\ \A p \in wkPosted :
         p.req = n => p.status \notin {"update", "complete"}
    /\ wkReq[n].pc = "done" =>
         {p \in wkPosted : p.req = n /\ p.status = "pong"}
           = {WkPost(n, "pong", wkReq[n].msg.messageId)}

\* C26: whenever the cached pipeline is non-null it is the pipeline that was
\* loaded for (currentModel, currentQuantized).  (Pipeline n is the one
\* loaded by request n, for that request's model and quantized.)
C26_TranscriberMatchesCurrentModel ==
  wkTranscriber # 0 =>
    /\ wkReq[wkTranscriber].msg.model = wkCurrentModel
    /\ wkReq[wkTranscriber].msg.quantized = wkCurrentQuantized

\* C27: the worker never disposes a pipeline instance while a transcription
\* call on that instance is still pending.
C27_NoDisposeWhilePending ==
  \A n \in WkCalling : wkReq[n].inst \notin wkDisposed

\* The requests whose pipeline() load is pending, and the pipeline instances
\* that loads have created (instance n is created by request n's load).
WkLoading == {n \in 1..Len(wkReq) : wkReq[n].pc = "loading"}
WkCreated == {n \in 1..Len(wkReq) : wkReq[n].inst = n}

\* C29: the worker loads a model at most once per (model, quantized)
\* configuration: no two loads of one configuration are pending together,
\* and every pipeline instance that was created is the cached one or has
\* been disposed.
C29_LoadOncePerConfiguration ==
  /\ \A m, n \in WkLoading :
       (/\ wkReq[m].msg.model = wkReq[n].msg.model
        /\ wkReq[m].msg.quantized = wkReq[n].msg.quantized) => m = n
  /\ \A n \in WkCreated : n = wkTranscriber \/ n \in wkDisposed

\* C28: in the periodic-refresh component a recognition result of an earlier
\* recording session is never displayed in a later one: once startRecording
\* has reset the transcription for a later session, a pipeline call started
\* in an earlier session does not write the transcription when it settles.
C28_NoResultFromEarlierSession ==
  [][\A c \in rtCalls :
       (c.sess < rtSessions /\ c \notin rtCalls')
         => rtTranscription' = rtTranscription]_vars

RecorderStopped ==
  \/ rtStatus = "processing"
  \/ csStatus = "processing"
  \/ phStatus = "processing"
  \/ \E r \in 1..MaxSessions :
       csRecState[r] = "stopping" \/ phRecState[r] = "stopping"

\* status of the mounted component is 'ready' (the components that are not
\* mounted keep their initial status 'loading').  A run that has used up
\* MaxCalls pipeline calls cannot start the final pass of the
\* periodic-refresh or chunk-streaming component and is left out.
BackToReady ==
  \/ rtStatus = "ready" \/ rtCallCount = MaxCalls
  \/ csStatus = "ready" \/ csCallCount = MaxCalls
  \/ phStatus = "ready"

\* C31: after the recorder stops, status always eventually returns to
\* 'ready' and never stays in 'processing', in every component variant,
\* provided each pipeline call eventually returns or throws.
C31_StopLeadsToReady == RecorderStopped ~> BackToReady

\* A pipeline call of a press-and-hold recording has thrown, its processing
\* is over and status is 'ready'.
C31_Witness ==
  \E r \in 1..MaxSessions :
    /\ phJobThrown[r]
    /\ phJob[r] = "done"
    /\ phRecState[r] = "inactive"
    /\ phStatus = "ready"
\* The transcribe requests that carry neither an audioUrl string nor an
\* audio payload, or a payload that is no ArrayBuffer, typed array or Blob.
WkNoAudio ==
  {n \in 1..Len(wkReq) :
     wkReq[n].msg.cmd = "transcribe" /\ wkReq[n].msg.audio \in {"none", "other"}}

\* C32: a worker request that carries neither an audioUrl string nor an
\* audio payload, or a payload of an unsupported form, never invokes the
\* pipeline and ends with an error response, in both versions of the worker.
C32_NoAudioEndsWithError ==
  \A n \in WkNoAudio :
    /\ wkReq[n].pc # "calling"
    /\ wkReq[n].pc = "done" => \E p \in wkPosted : p.req = n /\ p.status = "error"

\* C33: when getUserMedia rejects, the start command has no lasting effect:
\* no recorder and no refresh timer are created, status ends equal to its
\* value before the command and the transcription shown before the command
\* is unchanged.  In the periodic-refresh and chunk-streaming components the
\* command is startRecording up to its await followed by its catch block; in
\* the press-and-hold component it starts from status 'ready', and phBefore
\* is the transcription it found.
C33_MicFailureHasNoEffect ==
  [][/\ (RtStartRecording \/ RtMicDenied)
          => UNCHANGED << rtStatus, rtTranscription, rtRecState, rtRecorderRef,
                          rtTimers >>
     /\ (CsStartRecording \/ CsMicDenied)
          => UNCHANGED << csStatus, csTranscription, csRecState, csRecorderRef >>
     /\ (PhMicDenied /\ phMicPending = 1)
          => /\ UNCHANGED << phRecState, phRecorderRef >>
             /\ phStatus' = "ready"
             /\ phTranscription' = phBefore]_vars

\* The recorders whose recording is over: stopRecording has stopped them and
\* their stream (periodic-refresh, chunk-streaming), or their onstop handler,
\* which stops the stream's tracks, has run (press-and-hold).
RtStoppedRecorders ==
  {r \in 1..MaxSessions : rtRecState[r] \in {"stopping", "inactive"}}
CsStoppedRecorders ==
  {r \in 1..MaxSessions : csRecState[r] \in {"stopping", "flushed", "inactive"}}
PhStoppedRecorders ==
  {r \in 1..MaxSessions : phRecState[r] = "inactive"}

\* C34: whenever status has returned to 'ready' after a recording, every
\* microphone stream opened by a start command has had its tracks stopped
\* and no refresh timer is still scheduled.
C34_ReadyReleasesMicrophone ==
  /\ (rtStatus = "ready" /\ RtStoppedRecorders # {})
        => (rtLiveStreams = {} /\ rtTimers = {})
  /\ (csStatus = "ready" /\ CsStoppedRecorders # {}) => csLiveStreams = {}
  /\ (phStatus = "ready" /\ PhStoppedRecorders # {}) => phLiveStreams = {}

====
